---- MODULE Spec2Model ----
(***************************************************************************)
(* golkube: the resource observation subsystem.                            *)
(*                                                                         *)
(*   WatchEvents / processEvent   src/pkg/kube/configmap.go:160-215        *)
(*   GetResource, WaitForResource src/pkg/kube/client.go:129-171, 268-307  *)
(*                                                                         *)
(* Time is counted in milliseconds.  Every process has its own clock, the  *)
(* time elapsed since its call started; a step that blocks (an open        *)
(* attempt, a sleep, a wait for the next event) advances the clock by the  *)
(* time it blocked.                                                        *)
(*                                                                         *)
(* Errors are wrap chains: a sequence whose head is the outermost message  *)
(* (fmt.Errorf("...: %w", err)) and whose last element is the cause.       *)
(***************************************************************************)
EXTENDS Integers, Sequences, FiniteSets, TLC

(***************************************************************************)
(* Bounds of the model.                                                    *)
(***************************************************************************)
\* events the server sends on one stream
MaxEvents == 2
\* the clock value up to which a poller without deadline is followed
MaxPollTime == 8000
\* commands of one stage, stages of one pipeline file
MaxCommands == 2
MaxStages == 2
\* ticks of the monitor's ticker that are followed
MaxTicks == 4

(***************************************************************************)
(* Program constants.                                                      *)
(***************************************************************************)
\* retry.DefaultRetry = wait.Backoff{Steps: 5, Duration: 10ms, Factor: 1.0, Jitter: 0.1}
\* (variant: a budget of three steps)
RetryStepsThree == 2 + 1

DefaultRetrySteps == 5
DefaultRetryDuration == 10
\* Jitter 0.1 lengthens a 10ms sleep by less than 1ms, which is below the
\* resolution of the clock: a sleep lasts DefaultRetryDuration

\* values of EventWatcherConfig.RetryTimeout and RetryInterval that are tried
RetryTimeouts == {0, 20, 100}
RetryIntervals == {50}
\* how long the server takes to answer a stream-open request
OpenLatencies == {0, 30}
\* time between two events of a stream
EventGaps == {5}

\* wait.PollUntilContextTimeout(ctx, 2*time.Second, ...), wait.PollImmediate(2*time.Second, ...)
\* (variant: a poll every three seconds)
PollIntervalSlow == 3 * 1000

PollInterval == 2000
\* values of the timeout argument of WaitForResource that are tried; 0 is what
\* the wait-resource command passes when resource.wait.timeout is unset
WaitTimeouts == {0, 4000, 5000, 10000}
\* the two definitions of WaitForResource: client.go:157 polls with
\* wait.PollUntilContextTimeout, client.go:296 with wait.PollImmediate
WaitVariants == {"PollUntilContextTimeout", "PollImmediate"}
\* what DynamicClient.Get answers: an API status error, another error, or a resource
APIStatusErrors == {"StatusNotFound", "StatusForbidden"}
OtherErrors == {"ConnectionRefused"}
Resources == {"ready", "unready"}

HandlerNames == {"OnAdd", "OnModify", "OnDelete"}
\* the handler sets that are tried: all callbacks, OnModify absent, none
HandlerSets == {{"OnAdd", "OnModify", "OnDelete"}, {"OnAdd", "OnDelete"}, {}}
\* watch.EventType: Added, Modified, Deleted, Error (Bookmark is handled like Error)
EventTypes == {"ADDED", "MODIFIED", "DELETED", "ERROR"}
\* causes of a failed client.Watch
TransientCauses == {"ConnectionReset"}
NonTransientCauses == {"BadRequest"}
DeadlineCause == "DeadlineExceeded"

VARIABLES
  wcfg,         \* the EventWatcherConfig of the call
  wpc,          \* where WatchEvents is: attempt, backoff, session, handler, done
  steps,        \* backoff.Steps left in wait.ExponentialBackoff
  wnow,         \* time since WatchEvents was called
  ctxDeadline,  \* deadline of the attempt's context, -1 when no context is live
  attempts,     \* client.Watch calls made so far
  firstStart,   \* when the first attempt started, -1 before it
  lastStart,    \* when the latest attempt started, -1 before it
  lastSleep,    \* the sleep that preceded the latest attempt, -1 for the first
  sawNonTransient, \* some attempt failed with a non-transient error
  sessions,     \* streams opened so far
  watcherOpen,  \* the watcher exists and has not been stopped
  produced,     \* events the server sent on the stream, in order
  chan,         \* events sent and not yet received by the range loop
  closed,       \* the result channel was closed
  taken,        \* events the range loop received, in order
  calls,        \* handler invocations, in order: handler, event, status
  lastErr,      \* lastErr of retry.OnError
  wresult,      \* outcome of WatchEvents: none, nil, error, panic
  werr,         \* the error WatchEvents returned
  cancel        \* the caller's wish to stop the loop: none, requested, or
                \* overrun once an open attempt started after the request

VARIABLES
  pvariant,     \* which definition of WaitForResource runs
  ptimeout,     \* the timeout argument
  ppc,          \* where WaitForResource is: idle, start, wait, done
  pnow,         \* time since WaitForResource was called
  nextTick,     \* when the ticker of the poll fires next
  evals,        \* what DynamicClient.Get answered, one entry per fetch
  presult,      \* outcome of WaitForResource: none, success, timeout, error
  perr          \* the error WaitForResource returned

pvars == <<pvariant, ptimeout, ppc, pnow, nextTick, evals, presult, perr>>

wvars == <<wcfg, wpc, steps, wnow, ctxDeadline, attempts, firstStart, lastStart,
           lastSleep, sawNonTransient, sessions, watcherOpen,
           produced, chan, closed, taken, calls, lastErr, wresult, werr,
           cancel>>

VARIABLES
  spc,          \* where StreamEvents is: idle, start, stream, done
  sOpen,        \* the watcher of StreamEvents exists and has not been stopped
  sseen,        \* events the range loop of StreamEvents received
  sresult,      \* outcome of StreamEvents: none, nil, error
  serr          \* the error StreamEvents returned

svars == <<spc, sOpen, sseen, sresult, serr>>

VARIABLES
  pipeline,     \* the parsed pipeline file: stages, each a list of commands
  xpc,          \* where pipeline execute is: idle, stage, command, running,
                \* done (the Run function returned), exited (log.Fatalf)
  stageIx,      \* index of the stage the outer loop is at
  cmdIx,        \* index of the command the inner loop is at
  started,      \* commands started, in order: <<stage, command>>
  finished,     \* commands that ended, in order: <<stage, command, ok>>
  output        \* lines printed, in order

plvars == <<pipeline, xpc, stageIx, cmdIx, started, finished, output>>

VARIABLES
  minterval,    \* the interval argument of MonitorPodHealth
  mpc,          \* where MonitorPodHealth is: idle, start, loop, done
  mnow,         \* time since MonitorPodHealth was called
  listings,     \* Pods().List calls, in order: time and outcome
  mprinted,     \* lines printed by the loop, in order
  mresult       \* outcome of MonitorPodHealth: none, nil, panic

mvars == <<minterval, mpc, mnow, listings, mprinted, mresult>>

vars == <<wvars, pvars, svars, plvars, mvars>>

\* what a step of WatchEvents leaves alone
nonWatch == <<pvars, svars, plvars, mvars>>

\* what a step of WaitForResource leaves alone
nonPoll == <<wvars, svars, plvars, mvars>>

\* what a step of StreamEvents leaves alone
nonStream == <<wvars, pvars, plvars, mvars>>

\* what a step of pipeline execute leaves alone
nonPipeline == <<wvars, pvars, svars, mvars>>

\* what a step of MonitorPodHealth leaves alone
nonMonitor == <<wvars, pvars, svars, plvars>>

NoErr == <<>>

Max(a, b) == IF a >= b THEN a ELSE b

\* fmt.Errorf(msg + ": %w", err)
Wrap(msg, err) == <<msg>> \o err

\* the cause at the end of a wrap chain
Cause(err) == err[Len(err)]

(***************************************************************************)
(* WatchEvents                                                             *)
(***************************************************************************)

\* a caller that asks for a retry every second and a timeout of five
ScenarioWatchConfig ==
  [RetryInterval |-> 1000, RetryTimeout |-> 5000, Handlers |-> HandlerNames]

\* the watch of two goroutines that run side by side: a timeout so short that
\* a session sees one event at most
ConcurrentWatchConfig ==
  [RetryInterval |-> 50, RetryTimeout |-> 6, Handlers |-> HandlerNames]

WatchConfigs ==
  [RetryInterval : RetryIntervals, RetryTimeout : RetryTimeouts,
   Handlers : HandlerSets] \cup {ScenarioWatchConfig, ConcurrentWatchConfig}

\* the retriable callback handed to retry.OnError
\* (variant: only transient errors and timeouts are retried)
RetriableTransientOnly(err) == Cause(err) \in TransientCauses \cup {DeadlineCause}

Retriable(err) == TRUE

\* the error of a failed client.Watch, as the attempt returns it
WatchOpenError(cause) == Wrap("failed to watch events", <<cause>>)

\* the result of WatchEvents for the error retry.OnError returned
\* (variant: the error is dropped)
WatchEventsReturnSwallow(err) == [result |-> "nil", err |-> NoErr]

\* (variant: the error is wrapped without the nil check)
WatchEventsReturnNoNilCheck(err) ==
  [result |-> "error", err |-> Wrap("event watcher failed", err)]

WatchEventsReturn(err) ==
  IF err # NoErr
    THEN [result |-> "error", err |-> Wrap("event watcher failed", err)]
    ELSE [result |-> "nil", err |-> NoErr]

\* for event := range watcher.ResultChan(): the event received next
\* (variant: the newest event first)
RangeReceiveNewest(ch) == Len(ch)

RangeReceive(ch) == 1

\* what the range loop does after processEvent started a handler
\* (variant: go processEvent(...), the loop does not wait for the handler)
AfterInvokeAsync == "session"

AfterInvoke == "handler"

\* the handler processEvent invokes for an event, "none" when it invokes none
\* (variant: every event goes to OnAdd)
processEventAll(event, config) ==
  IF "OnAdd" \in config.Handlers THEN "OnAdd" ELSE "none"

\* (variant: the callbacks are called without the nil checks)
processEventNoNilCheck(event, config) ==
  CASE event.type = "ADDED" -> "OnAdd"
    [] event.type = "MODIFIED" -> "OnModify"
    [] event.type = "DELETED" -> "OnDelete"
    [] OTHER -> "none"

processEvent(event, config) ==
  CASE event.type = "ADDED" ->
         IF "OnAdd" \in config.Handlers THEN "OnAdd" ELSE "none"
    [] event.type = "MODIFIED" ->
         IF "OnModify" \in config.Handlers THEN "OnModify" ELSE "none"
    [] event.type = "DELETED" ->
         IF "OnDelete" \in config.Handlers THEN "OnDelete" ELSE "none"
    [] OTHER -> "none"

\* WatchEvents has not been called
WatchIdle ==
  /\ wcfg = [RetryInterval |-> 0, RetryTimeout |-> 0, Handlers |-> {}]
  /\ wpc = "idle"
  /\ steps = DefaultRetrySteps
  /\ wnow = 0
  /\ ctxDeadline = -1
  /\ attempts = 0
  /\ firstStart = -1
  /\ lastStart = -1
  /\ lastSleep = -1
  /\ sawNonTransient = FALSE
  /\ sessions = 0
  /\ watcherOpen = FALSE
  /\ produced = <<>>
  /\ chan = <<>>
  /\ closed = FALSE
  /\ taken = <<>>
  /\ calls = <<>>
  /\ lastErr = NoErr
  /\ wresult = "none"
  /\ werr = NoErr
  /\ cancel = "none"

WatchInit ==
  /\ wcfg \in WatchConfigs
  /\ wpc = "attempt"
  /\ steps = DefaultRetrySteps
  /\ wnow = 0
  /\ ctxDeadline = -1
  /\ attempts = 0
  /\ firstStart = -1
  /\ lastStart = -1
  /\ lastSleep = -1
  /\ sawNonTransient = FALSE
  /\ sessions = 0
  /\ watcherOpen = FALSE
  /\ produced = <<>>
  /\ chan = <<>>
  /\ closed = FALSE
  /\ taken = <<>>
  /\ calls = <<>>
  /\ lastErr = NoErr
  /\ wresult = "none"
  /\ werr = NoErr
  /\ cancel = "none"

\* context.WithTimeout(context.Background(), config.RetryTimeout): how long
\* the context of one attempt lives
\* (variant: no timeout on the context of the attempt)
AttemptTimeoutNone(config) == 1000000

AttemptTimeout(config) == config.RetryTimeout

\* where the attempt is once client.Watch returned a watcher: in the range
\* loop, in the goroutine of the attempt
\* (variant: the range loop runs in a goroutine of its own and the attempt is
\* made again)
AfterOpenAsync == "attempt"

AfterOpen == "session"

\* what the attempt returns when the range loop has ended
\* (variant: the end of the stream is returned as an error)
SessionResultError == <<"stream closed">>

SessionResult == NoErr

\* One run of the function retry.OnError retries: context.WithTimeout and
\* client.Watch.  The server answers after `latency` with a stream (cause =
\* "ok") or an error; the context expires first when latency >= RetryTimeout.
\* A failed attempt goes through retriable(err) and the step count of
\* wait.ExponentialBackoff: sleep and retry, or give up and return.
OpenAttempt(cause, latency) ==
  /\ wpc = "attempt"
  /\ LET deadline == wnow + AttemptTimeout(wcfg)
         expired == latency >= AttemptTimeout(wcfg)
         end == IF expired THEN deadline ELSE wnow + latency
         outcome == IF expired THEN DeadlineCause ELSE cause
         err == WatchOpenError(outcome)
     IN /\ wnow' = end
        /\ attempts' = attempts + 1
        /\ firstStart' = IF attempts = 0 THEN wnow ELSE firstStart
        /\ lastStart' = wnow
        /\ sawNonTransient' = (sawNonTransient \/ outcome \in NonTransientCauses)
        /\ IF outcome = "ok"
             THEN /\ wpc' = AfterOpen
                  /\ ctxDeadline' = deadline
                  /\ sessions' = sessions + 1
                  /\ watcherOpen' = TRUE
                  /\ UNCHANGED <<steps, lastErr, wresult, werr>>
             ELSE /\ ctxDeadline' = -1
                  /\ UNCHANGED <<sessions, watcherOpen>>
                  /\ IF ~Retriable(err)
                       THEN \* OnError: default: return false, err
                            /\ wpc' = "done"
                            /\ wresult' = WatchEventsReturn(err).result
                            /\ werr' = WatchEventsReturn(err).err
                            /\ UNCHANGED <<steps, lastErr>>
                       ELSE /\ lastErr' = err
                            /\ IF steps = 1
                                 THEN \* ErrWaitTimeout, replaced by lastErr
                                      /\ wpc' = "done"
                                      /\ wresult' = WatchEventsReturn(err).result
                                      /\ werr' = WatchEventsReturn(err).err
                                      /\ UNCHANGED steps
                                 ELSE /\ wpc' = "backoff"
                                      /\ steps' = steps - 1
                                      /\ UNCHANGED <<wresult, werr>>
  /\ cancel' = IF cancel = "requested" THEN "overrun" ELSE cancel
  /\ UNCHANGED <<wcfg, lastSleep, produced, chan, closed, taken, calls>>
  /\ UNCHANGED nonWatch

\* the backoff handed to retry.OnError is retry.DefaultRetry, whatever the
\* config says (variant: the sleep is config.RetryInterval)
BackoffDelayFromConfig(config) == config.RetryInterval

BackoffDelay(config) == DefaultRetryDuration

\* time.Sleep(backoff.Step()) between two attempts
BackoffSleep ==
  /\ wpc = "backoff"
  /\ wnow' = wnow + BackoffDelay(wcfg)
  /\ lastSleep' = BackoffDelay(wcfg)
  /\ wpc' = "attempt"
  /\ UNCHANGED <<wcfg, steps, ctxDeadline, attempts, firstStart, lastStart,
                 sawNonTransient, sessions, watcherOpen,
                 produced, chan, closed, taken, calls, lastErr, wresult, werr>>
  /\ UNCHANGED <<cancel, nonWatch>>

\* the server sends the next event of the open stream
ServerSend(type, gap) ==
  /\ wpc \in {"session", "handler"}
  /\ watcherOpen /\ ~closed
  /\ Len(produced) < MaxEvents
  /\ wnow + gap < ctxDeadline
  /\ LET ev == [type |-> type, seq |-> Len(produced) + 1, session |-> sessions]
     IN /\ produced' = Append(produced, ev)
        /\ chan' = Append(chan, ev)
  /\ wnow' = wnow + gap
  /\ UNCHANGED <<wcfg, wpc, steps, ctxDeadline, attempts, firstStart, lastStart, lastSleep,
                 sawNonTransient, sessions, watcherOpen,
                 closed, taken, calls, lastErr, wresult, werr>>
  /\ UNCHANGED <<cancel, nonWatch>>

\* the server ends the stream, or the connection drops: the result channel
\* is closed once the events already sent have been received
ServerClose ==
  /\ wpc \in {"session", "handler"}
  /\ watcherOpen /\ ~closed
  /\ closed' = TRUE
  /\ UNCHANGED <<wcfg, wpc, steps, wnow, ctxDeadline, attempts, firstStart, lastStart, lastSleep,
                 sawNonTransient, sessions,
                 watcherOpen, produced, chan, taken, calls, lastErr, wresult, werr>>
  /\ UNCHANGED <<cancel, nonWatch>>

\* watcher.ResultChan() is unbuffered: the goroutine that decodes the stream
\* holds at most this many events it has decoded and not yet handed over
\* (variant: a result channel with a buffer of one)
DecodedAheadBuffered == 1 + 1

DecodedAhead == 1

\* the context of the attempt, still in force during the session, expires:
\* the request is cancelled and the result channel closed.  An event that was
\* already decoded may still be handed over, the rest of the stream is lost.
CtxDeadline(keep) ==
  /\ wpc \in {"session", "handler"}
  /\ watcherOpen /\ ~closed
  /\ keep <= Len(chan)
  /\ wnow' = Max(wnow, ctxDeadline)
  /\ closed' = TRUE
  /\ chan' = SubSeq(chan, 1, keep)
  /\ UNCHANGED <<wcfg, wpc, steps, ctxDeadline, attempts, firstStart, lastStart, lastSleep,
                 sawNonTransient, sessions, watcherOpen,
                 produced, taken, calls, lastErr, wresult, werr>>
  /\ UNCHANGED <<cancel, nonWatch>>

\* for event := range watcher.ResultChan() { processEvent(event, config) }:
\* receive one event and enter the handler that processEvent selects
TakeEvent ==
  /\ wpc = "session"
  /\ chan # <<>>
  /\ LET i == RangeReceive(chan)
         ev == chan[i]
         h == processEvent(ev, wcfg)
     IN /\ chan' = SubSeq(chan, 1, i - 1) \o SubSeq(chan, i + 1, Len(chan))
        /\ taken' = Append(taken, ev)
        /\ IF h = "none"
             THEN UNCHANGED <<calls, wpc>>
             ELSE /\ calls' = Append(calls,
                                     [handler |-> h, ev |-> ev, status |-> "running"])
                  /\ wpc' = AfterInvoke
  /\ UNCHANGED <<wcfg, steps, wnow, ctxDeadline, attempts, firstStart, lastStart, lastSleep,
                 sawNonTransient, sessions, watcherOpen,
                 produced, closed, lastErr, wresult, werr>>
  /\ UNCHANGED <<cancel, nonWatch>>

RunningCalls == {i \in 1..Len(calls) : calls[i].status = "running"}

\* defer watcher.Stop(): whether the watcher is still open once the function
\* that opened it has been left (variant: Stop is not deferred)
DeferredStopMissing == TRUE

DeferredStop == FALSE

\* the handler returns; the range loop goes on to the next receive
HandlerReturn ==
  /\ RunningCalls # {}
  /\ \E i \in RunningCalls :
       calls' = [calls EXCEPT ![i].status = "returned"]
  /\ wpc' = IF wpc = "handler" THEN "session" ELSE wpc
  /\ UNCHANGED <<wcfg, steps, wnow, ctxDeadline, attempts, firstStart, lastStart, lastSleep,
                 sawNonTransient, sessions, watcherOpen,
                 produced, chan, closed, taken, lastErr, wresult, werr>>
  /\ UNCHANGED <<cancel, nonWatch>>

\* the handler panics.  Nothing between the handler and the caller of
\* WatchEvents recovers: the deferred watcher.Stop() and cancel() run, and the
\* panic leaves WatchEvents.
HandlerPanic ==
  /\ wpc = "handler"
  /\ RunningCalls # {}
  /\ \E i \in RunningCalls :
       calls' = [calls EXCEPT ![i].status = "panicked"]
  /\ wpc' = "done"
  /\ wresult' = "panic"
  /\ watcherOpen' = DeferredStop
  /\ ctxDeadline' = -1
  /\ UNCHANGED <<wcfg, steps, wnow, attempts, firstStart, lastStart, lastSleep,
                 sawNonTransient, sessions, produced, chan, closed,
                 taken, lastErr, werr>>
  /\ UNCHANGED <<cancel, nonWatch>>

\* the result channel is closed and drained: the range loop ends, the attempt
\* returns nil (deferred watcher.Stop() and cancel()), retry.OnError returns
\* nil and so does WatchEvents
SessionEnd ==
  /\ wpc = "session"
  /\ chan = <<>> /\ closed
  /\ wpc' = "done"
  /\ wresult' = WatchEventsReturn(SessionResult).result
  /\ werr' = WatchEventsReturn(SessionResult).err
  /\ watcherOpen' = DeferredStop
  /\ ctxDeadline' = -1
  /\ UNCHANGED <<wcfg, steps, wnow, attempts, firstStart, lastStart, lastSleep,
                 sawNonTransient, sessions, produced, chan, closed,
                 taken, calls, lastErr>>
  /\ UNCHANGED <<cancel, nonWatch>>

\* The caller wants the loop to stop.  WatchEvents takes no context and no
\* stop channel and builds its contexts from context.Background(): nothing in
\* the loop reads the request.
CancelRequest ==
  /\ wpc \in {"attempt", "backoff", "session", "handler"}
  /\ cancel = "none"
  /\ cancel' = "requested"
  /\ UNCHANGED <<wcfg, wpc, steps, wnow, ctxDeadline, attempts, firstStart, lastStart,
                 lastSleep, sawNonTransient, sessions, watcherOpen, produced, chan,
                 closed, taken, calls, lastErr, wresult, werr>>
  /\ UNCHANGED nonWatch

WatchNext ==
  \/ CancelRequest
  \/ \E cause \in {"ok"} \cup TransientCauses \cup NonTransientCauses,
        latency \in OpenLatencies : OpenAttempt(cause, latency)
  \/ BackoffSleep
  \/ \E type \in EventTypes, gap \in EventGaps : ServerSend(type, gap)
  \/ ServerClose
  \/ \E keep \in 0..DecodedAhead : CtxDeadline(keep)
  \/ TakeEvent
  \/ HandlerReturn
  \/ HandlerPanic
  \/ SessionEnd

(***************************************************************************)
(* GetResource and WaitForResource                                         *)
(***************************************************************************)

\* k8sErrors.IsNotFound: the reason of the first API status error in the wrap
\* chain (errors.As) is NotFound
\* (variant: a type assertion on the outermost error only)
IsNotFoundNoUnwrap(err) == err # NoErr /\ err[1] = "StatusNotFound"

IsNotFound(err) ==
  LET statuses == {i \in 1..Len(err) : err[i] \in APIStatusErrors}
  IN /\ statuses # {}
     /\ \E i \in statuses : /\ \A j \in statuses : i <= j
                             /\ err[i] = "StatusNotFound"

\* GetResource for the answer of DynamicClient.Get
GetResource(answer) ==
  IF answer \in APIStatusErrors \cup OtherErrors
    THEN IF IsNotFound(<<answer>>)
           THEN [resource |-> "nil", err |-> Wrap("resource not found", <<answer>>)]
           ELSE [resource |-> "nil", err |-> Wrap("failed to get resource", <<answer>>)]
    ELSE [resource |-> answer, err |-> NoErr]

\* the caller's predicate
condition(resource) == resource = "ready"

\* the condition function WaitForResource hands to the poll
\* (variant: every fetch error means keep waiting)
PollConditionKeepWaiting(answer) ==
  LET r == GetResource(answer)
  IN IF r.err # NoErr
       THEN [done |-> FALSE, err |-> NoErr]
       ELSE [done |-> condition(r.resource), err |-> NoErr]

\* (variant: return false, nil instead of return condition(resource), nil)
PollConditionNeverDone(answer) ==
  LET r == GetResource(answer)
  IN IF r.err # NoErr
       THEN IF IsNotFound(r.err)
              THEN [done |-> FALSE, err |-> NoErr]
              ELSE [done |-> FALSE, err |-> r.err]
       ELSE [done |-> FALSE, err |-> NoErr]

PollCondition(answer) ==
  LET r == GetResource(answer)
  IN IF r.err # NoErr
       THEN IF IsNotFound(r.err)
              THEN [done |-> FALSE, err |-> NoErr]
              ELSE [done |-> FALSE, err |-> r.err]
       ELSE [done |-> condition(r.resource), err |-> NoErr]

FetchAnswers == APIStatusErrors \cup OtherErrors \cup Resources

\* WaitForResource has not been called
PollIdle ==
  /\ pvariant = "PollUntilContextTimeout"
  /\ ptimeout = 0
  /\ ppc = "idle"
  /\ pnow = 0
  /\ nextTick = 0
  /\ evals = <<>>
  /\ presult = "none"
  /\ perr = NoErr

PollInit ==
  /\ pvariant \in WaitVariants
  /\ ptimeout \in WaitTimeouts
  /\ ppc = "start"
  /\ pnow = 0
  /\ nextTick = PollInterval
  /\ evals = <<>>
  /\ presult = "none"
  /\ perr = NoErr

\* one run of the condition function and what the poll does with its result:
\* return the error, return nil, or go on (`last`: the channel of the legacy
\* poller was closed, this was the final run)
RunCondition(answer, last) ==
  LET c == PollCondition(answer)
  IN /\ evals' = Append(evals, answer)
     /\ IF c.err # NoErr
          THEN /\ ppc' = "done" /\ presult' = "error" /\ perr' = c.err
          ELSE IF c.done
            THEN /\ ppc' = "done" /\ presult' = "success" /\ perr' = NoErr
            ELSE IF last
              THEN /\ ppc' = "done" /\ presult' = "timeout"
                   /\ perr' = <<"ErrWaitTimeout">>
              ELSE /\ ppc' = "wait" /\ UNCHANGED <<presult, perr>>

\* the immediate argument of wait.PollUntilContextTimeout; wait.PollImmediate
\* (variant: wait.Poll, the first run comes after one interval)
ImmediateOff == FALSE

Immediate == TRUE

\* immediate = true, PollImmediate: the condition runs once before any wait
PollStart(answer) ==
  /\ ppc = "start"
  /\ IF Immediate
       THEN RunCondition(answer, FALSE)
       ELSE /\ ppc' = "wait"
            /\ UNCHANGED <<evals, presult, perr>>
  /\ UNCHANGED <<pvariant, ptimeout, pnow, nextTick>>
  /\ UNCHANGED nonPoll

\* the poller's timer is a fixed ticker (variant: a backoff that doubles)
TickAfterDoubling(t) == 2 * t

TickAfter(t) == t + PollInterval

\* the ticker fires before the deadline: the condition runs again.
\* PollUntilContextTimeout checks ctx.Err() after the select, so a tick at the
\* deadline loses; the legacy poller may see the tick or the timer first, and
\* has no timer at all when the timeout is 0.
PollTick(answer) ==
  /\ ppc = "wait"
  /\ nextTick <= MaxPollTime
  /\ IF pvariant = "PollUntilContextTimeout"
       THEN nextTick < ptimeout
       ELSE ptimeout = 0 \/ nextTick <= ptimeout
  /\ pnow' = nextTick
  /\ nextTick' = TickAfter(nextTick)
  /\ RunCondition(answer, FALSE)
  /\ UNCHANGED <<pvariant, ptimeout>>
  /\ UNCHANGED nonPoll

\* PollUntilContextTimeout: the context is done, the poll returns ctx.Err()
PollDeadline ==
  /\ ppc = "wait"
  /\ pvariant = "PollUntilContextTimeout"
  /\ ptimeout <= nextTick
  /\ pnow' = ptimeout
  /\ ppc' = "done"
  /\ presult' = "timeout"
  /\ perr' = <<"DeadlineExceeded">>
  /\ UNCHANGED <<pvariant, ptimeout, nextTick, evals>>
  /\ UNCHANGED nonPoll

\* PollImmediate: the timer of the poller fires and closes the channel; the
\* condition runs a last time before ErrWaitTimeout is returned
PollChannelClosed(answer) ==
  /\ ppc = "wait"
  /\ pvariant = "PollImmediate"
  /\ ptimeout # 0
  /\ ptimeout <= nextTick
  /\ pnow' = ptimeout
  /\ RunCondition(answer, TRUE)
  /\ UNCHANGED <<pvariant, ptimeout, nextTick>>
  /\ UNCHANGED nonPoll

PollNext ==
  \/ \E answer \in FetchAnswers : PollStart(answer)
  \/ \E answer \in FetchAnswers : PollTick(answer)
  \/ PollDeadline
  \/ \E answer \in FetchAnswers : PollChannelClosed(answer)

(***************************************************************************)
(* StreamEvents                                                            *)
(***************************************************************************)

\* StreamEvents has not been called
StreamIdle ==
  /\ spc = "idle"
  /\ sOpen = FALSE
  /\ sseen = 0
  /\ sresult = "none"
  /\ serr = NoErr

StreamInit ==
  /\ spc = "start"
  /\ sOpen = FALSE
  /\ sseen = 0
  /\ sresult = "none"
  /\ serr = NoErr

\* client.Watch(context.TODO(), ...): a stream, or the error wrapped and
\* returned; the context has no deadline and is never cancelled
StreamOpen(cause) ==
  /\ spc = "start"
  /\ IF cause = "ok"
       THEN /\ spc' = "stream"
            /\ sOpen' = TRUE
            /\ UNCHANGED <<sresult, serr>>
       ELSE /\ spc' = "done"
            /\ sresult' = "error"
            /\ serr' = Wrap("failed to start event watcher", <<cause>>)
            /\ UNCHANGED sOpen
  /\ UNCHANGED sseen
  /\ UNCHANGED nonStream

\* the range loop receives one event and describes or logs it
StreamReceive ==
  /\ spc = "stream"
  /\ sseen < MaxEvents
  /\ sseen' = sseen + 1
  /\ UNCHANGED <<spc, sOpen, sresult, serr>>
  /\ UNCHANGED nonStream

\* the result channel is closed: the range loop ends, StreamEvents returns
\* nil and the deferred watcher.Stop() runs
StreamClosed ==
  /\ spc = "stream"
  /\ spc' = "done"
  /\ sresult' = "nil"
  /\ sOpen' = DeferredStop
  /\ UNCHANGED <<sseen, serr>>
  /\ UNCHANGED nonStream

StreamNext ==
  \/ \E cause \in {"ok"} \cup TransientCauses \cup NonTransientCauses :
       StreamOpen(cause)
  \/ StreamReceive
  \/ StreamClosed

(***************************************************************************)
(* pipeline execute                                                        *)
(***************************************************************************)

\* a pipeline file: its stages in file order, each with the number of
\* commands it lists
Pipelines ==
  UNION {[1..n -> 0..MaxCommands] : n \in 0..MaxStages}

\* what stops the command before the loops: no file configured, a file that
\* cannot be read, a file that cannot be parsed
LoadOutcomes == {"ok", "not specified", "read failed", "parse failed"}

\* pipeline execute has not been called
PipelineIdle ==
  /\ pipeline = <<>>
  /\ xpc = "idle"
  /\ stageIx = 1
  /\ cmdIx = 1
  /\ started = <<>>
  /\ finished = <<>>
  /\ output = <<>>

PipelineInit ==
  /\ pipeline \in Pipelines
  /\ xpc = "load"
  /\ stageIx = 1
  /\ cmdIx = 1
  /\ started = <<>>
  /\ finished = <<>>
  /\ output = <<>>

\* viper.GetString, os.ReadFile, yaml.Unmarshal: log.Fatalf on each failure
LoadPipeline(outcome) ==
  /\ xpc = "load"
  /\ IF outcome = "ok"
       THEN /\ xpc' = "stage"
            /\ UNCHANGED output
       ELSE /\ xpc' = "exited"
            /\ output' = Append(output, <<"fatal", outcome>>)
  /\ UNCHANGED <<pipeline, stageIx, cmdIx, started, finished>>
  /\ UNCHANGED nonPipeline

\* for _, stage := range pipeline.Stages: the next stage begins
StageBegin ==
  /\ xpc = "stage"
  /\ stageIx <= Len(pipeline)
  /\ output' = Append(output, <<"Executing stage", stageIx>>)
  /\ cmdIx' = 1
  /\ xpc' = "command"
  /\ UNCHANGED <<pipeline, stageIx, started, finished>>
  /\ UNCHANGED nonPipeline

\* for _, command := range stage.Commands: exec.Command("sh", "-c", command)
\* is started by cmd.Run()
CommandStart ==
  /\ xpc = "command"
  /\ cmdIx <= pipeline[stageIx]
  /\ output' = Append(output, <<"Running command", stageIx, cmdIx>>)
  /\ started' = Append(started, <<stageIx, cmdIx>>)
  /\ xpc' = "running"
  /\ UNCHANGED <<pipeline, stageIx, cmdIx, finished>>
  /\ UNCHANGED nonPipeline

\* what follows a command that failed: log.Fatalf ends the process
\* (variant: the failure is logged and the loop goes on)
AfterCommandFailureGoOn == "command"

AfterCommandFailure == "exited"

\* cmd.Run() returns once the command has ended
CommandExit(ok) ==
  /\ xpc = "running"
  /\ finished' = Append(finished, <<stageIx, cmdIx, ok>>)
  /\ cmdIx' = cmdIx + 1
  /\ IF ok
       THEN /\ xpc' = "command"
            /\ UNCHANGED output
       ELSE /\ xpc' = AfterCommandFailure
            /\ output' = Append(output, <<"Command failed", stageIx, cmdIx>>)
  /\ UNCHANGED <<pipeline, stageIx, started>>
  /\ UNCHANGED nonPipeline

\* the inner loop is over
StageCompleted ==
  /\ xpc = "command"
  /\ cmdIx > pipeline[stageIx]
  /\ output' = Append(output, <<"Stage completed successfully", stageIx>>)
  /\ stageIx' = stageIx + 1
  /\ xpc' = "stage"
  /\ UNCHANGED <<pipeline, cmdIx, started, finished>>
  /\ UNCHANGED nonPipeline

\* the outer loop is over
PipelineCompleted ==
  /\ xpc = "stage"
  /\ stageIx > Len(pipeline)
  /\ output' = Append(output, <<"Pipeline execution completed successfully">>)
  /\ xpc' = "done"
  /\ UNCHANGED <<pipeline, stageIx, cmdIx, started, finished>>
  /\ UNCHANGED nonPipeline

PipelineNext ==
  \/ \E outcome \in LoadOutcomes : LoadPipeline(outcome)
  \/ StageBegin
  \/ CommandStart
  \/ \E ok \in BOOLEAN : CommandExit(ok)
  \/ StageCompleted
  \/ PipelineCompleted

(***************************************************************************)
(* MonitorPodHealth                                                        *)
(***************************************************************************)

\* viper.GetDuration("monitoring.interval"): 0 when the key is not set
MonitorIntervals == {0, 1000, 3000}

\* what Pods(namespace).List answers
ListOutcomes == {"error", "no pods", "one pod"}

\* MonitorPodHealth has not been called
MonitorIdle ==
  /\ minterval = 0
  /\ mpc = "idle"
  /\ mnow = 0
  /\ listings = <<>>
  /\ mprinted = <<>>
  /\ mresult = "none"

MonitorInit ==
  /\ minterval \in MonitorIntervals
  /\ mpc = "start"
  /\ mnow = 0
  /\ listings = <<>>
  /\ mprinted = <<>>
  /\ mresult = "none"

\* time.NewTicker(interval): panics when the interval is not positive
MonitorStart ==
  /\ mpc = "start"
  /\ IF minterval <= 0
       THEN /\ mpc' = "done"
            /\ mresult' = "panic"
       ELSE /\ mpc' = "loop"
            /\ UNCHANGED mresult
  /\ UNCHANGED <<minterval, mnow, listings, mprinted>>
  /\ UNCHANGED nonMonitor

\* what follows a listing that failed: continue
\* (variant: the error is returned)
AfterListErrorReturn == "done"

AfterListError == "loop"

\* for range ticker.C: the ticker fires one interval after the last tick (the
\* first one interval after NewTicker), the pods are listed and printed
MonitorTick(outcome) ==
  /\ mpc = "loop"
  /\ Len(listings) < MaxTicks
  /\ mnow' = mnow + minterval
  /\ listings' = Append(listings, [at |-> mnow + minterval, outcome |-> outcome])
  /\ CASE outcome = "error" ->
            /\ mprinted' = Append(mprinted, "Error listing pods")
            /\ mpc' = AfterListError
            /\ mresult' = IF AfterListError = "done" THEN "error" ELSE mresult
       [] outcome = "no pods" ->
            UNCHANGED <<mprinted, mpc, mresult>>
       [] OTHER ->
            /\ mprinted' = Append(mprinted, "Pod status")
            /\ UNCHANGED <<mpc, mresult>>
  /\ UNCHANGED minterval
  /\ UNCHANGED nonMonitor

MonitorNext ==
  \/ MonitorStart
  \/ \E outcome \in ListOutcomes : MonitorTick(outcome)

(***************************************************************************)
(* Specifications                                                          *)
(***************************************************************************)

\* one WatchEvents call
InitWatch == WatchInit /\ PollIdle /\ StreamIdle /\ PipelineIdle /\ MonitorIdle

SpecWatch == InitWatch /\ [][WatchNext]_vars

\* one WaitForResource call
InitWait == WatchIdle /\ PollInit /\ StreamIdle /\ PipelineIdle /\ MonitorIdle

SpecWait == InitWait /\ [][PollNext]_vars

\* the wait of the two goroutines that run side by side
ConcurrentWaitTimeout == 4000

\* a WatchEvents call and a WaitForResource call, each in its own goroutine
InitBoth ==
  /\ WatchInit /\ wcfg = ConcurrentWatchConfig
  /\ PollInit /\ ptimeout = ConcurrentWaitTimeout
  /\ StreamIdle /\ PipelineIdle /\ MonitorIdle

BothNext == WatchNext \/ PollNext

SpecBoth == InitBoth /\ [][BothNext]_vars

\* a WatchEvents call and a StreamEvents call, each in its own goroutine
InitStreams ==
  /\ WatchInit /\ wcfg = ConcurrentWatchConfig
  /\ StreamInit
  /\ PollIdle /\ PipelineIdle /\ MonitorIdle

StreamsNext == WatchNext \/ StreamNext

SpecStreams == InitStreams /\ [][StreamsNext]_vars

\* one run of pipeline execute
InitPipeline ==
  WatchIdle /\ PollIdle /\ StreamIdle /\ PipelineInit /\ MonitorIdle

SpecPipeline == InitPipeline /\ [][PipelineNext]_vars

\* one MonitorPodHealth call
InitMonitor ==
  WatchIdle /\ PollIdle /\ StreamIdle /\ PipelineIdle /\ MonitorInit

SpecMonitor == InitMonitor /\ [][MonitorNext]_vars

(***************************************************************************)
(* Claims about WatchEvents                                                *)
(***************************************************************************)

PanickedCalls == {i \in 1..Len(calls) : calls[i].status = "panicked"}

\* WatchEvents gave up: it returned an error without ever opening a stream
GaveUp == wpc = "done" /\ wresult = "error" /\ sessions = 0

\* C1: within a session the events are received in the order the server sent
\* them, without gaps; the handler invocations follow that order, and the only
\* invocation that can be in progress is the one for the event received last,
\* so a handler has returned before the next event is taken.
C1_OrderedOneAtATime ==
  /\ Len(taken) <= Len(produced)
  /\ \A i \in 1..Len(taken) : taken[i] = produced[i]
  /\ \A i, j \in 1..Len(calls) : i < j => calls[i].ev.seq < calls[j].ev.seq
  /\ \A i \in 1..Len(calls) : \E k \in 1..Len(taken) : calls[i].ev = taken[k]
  /\ Cardinality(RunningCalls) <= 1
  /\ \A i \in RunningCalls :
       /\ i = Len(calls)
       /\ calls[i].ev = taken[Len(taken)]
       /\ wpc = "handler"

\* C1 witness: a second handler runs after the first one returned
C1_Witness ==
  /\ Len(calls) = 2
  /\ calls[1].status = "returned"
  /\ calls[2].status = "running"
  /\ calls[1].ev.seq = 1 /\ calls[2].ev.seq = 2

\* C2: a handler that panicked does not end the session and does not reach the
\* caller: WatchEvents does not end in a panic, and no event that was sent
\* after the failing one is left undelivered when WatchEvents ends.
C2_HandlerFailureContained ==
  PanickedCalls # {} =>
    /\ wresult # "panic"
    /\ (wpc = "done" => chan = <<>>)

\* C3: as long as the retry-timeout has not elapsed since the first attempt,
\* the loop has not given up on transient failures, whatever their number, so
\* that a later successful open still comes.
C3_RetriesUntilTimeout ==
  (GaveUp /\ ~sawNonTransient) => wnow - firstStart >= wcfg.RetryTimeout

\* C5: WatchEvents does not return to the caller because an established
\* session ended; it goes on to open a new stream.
C5_ReconnectsAfterSessionEnd ==
  (sessions >= 1 /\ closed /\ chan = <<>> /\ PanickedCalls = {}) => wpc # "done"

\* C8: a non-transient open error aborts the loop at once: the attempt that
\* saw it is the last one and its error is what the caller gets.
C8_NonTransientAborts ==
  sawNonTransient =>
    /\ wpc = "done"
    /\ wresult = "error"
    /\ Cause(werr) \in NonTransientCauses

\* C8 amended: every open error is retried, the non-transient ones too: after
\* a failed open a further attempt follows while fewer than 5 attempts were
\* made, and only the failure of the 5th attempt is surfaced to the caller,
\* as the wrapped error of that attempt.
C8_EveryErrorRetried ==
  /\ (lastErr # NoErr /\ sessions = 0 /\ attempts < DefaultRetrySteps)
       => wpc \in {"backoff", "attempt"}
  /\ wresult = "error"
       => /\ attempts = DefaultRetrySteps
          /\ sessions = 0
          /\ werr = Wrap("event watcher failed", lastErr)

\* C8 witness: an attempt was made after a non-transient error, and it opened
\* the stream
C8_Witness == sawNonTransient /\ attempts >= 2 /\ sessions = 1

\* C9: the retries are bounded by RetryTimeout counted from the first attempt:
\* no attempt starts after it has elapsed, the loop does not give up before,
\* and two attempts are separated by RetryInterval.
C9_BoundedByRetryTimeout ==
  /\ attempts >= 2 => lastStart - firstStart <= wcfg.RetryTimeout
  /\ attempts >= 2 => lastSleep = wcfg.RetryInterval
  /\ GaveUp => wnow - firstStart >= wcfg.RetryTimeout

\* C10: when no attempt succeeded and the retries are used up, WatchEvents has
\* returned a non-nil "event watcher failed" error: it did not return nil and
\* it makes no further attempt.
C10_EstablishmentFailed ==
  /\ attempts <= DefaultRetrySteps
  /\ (attempts = DefaultRetrySteps /\ sessions = 0)
       => /\ wpc = "done"
          /\ wresult = "error"
          /\ werr # NoErr /\ Head(werr) = "event watcher failed"
  /\ (wpc = "done" /\ sessions = 0) => wresult = "error"

\* C10 witness: five failed attempts, the error is returned
C10_Witness == GaveUp /\ attempts = DefaultRetrySteps /\ werr # NoErr

(***************************************************************************)
(* Claims about WaitForResource                                            *)
(***************************************************************************)

NonTerminalAnswers == {"StatusNotFound", "unready"}
FatalAnswers == (APIStatusErrors \cup OtherErrors) \ {"StatusNotFound"}

\* C4: the call is in Polling or in exactly one of the three terminal
\* outcomes, each for its own reason; and it is never still polling after the
\* deadline.
C4_ThreeTerminalOutcomes ==
  /\ (ppc = "done") <=> (presult \in {"success", "timeout", "error"})
  /\ presult = "success" => evals[Len(evals)] = "ready"
  /\ presult = "error" => evals[Len(evals)] \in FatalAnswers
  /\ presult = "timeout" =>
       /\ pnow >= ptimeout
       /\ \A i \in 1..Len(evals) : evals[i] \in NonTerminalAnswers
  /\ ppc \in {"start", "wait"} => pnow <= ptimeout

\* C6: not-found does not end the wait: an error outcome never comes from a
\* not-found answer, and a satisfying resource fetched after not-found
\* answers gives success.
C6_NotFoundKeepsWaiting ==
  /\ presult = "error" => evals[Len(evals)] # "StatusNotFound"
  /\ (evals # <<>> /\ evals[Len(evals)] = "ready") => presult = "success"
  /\ \A i \in 1..Len(evals) :
       evals[i] = "StatusNotFound" =>
         \/ i < Len(evals)
         \/ ppc = "wait"
         \/ presult = "timeout"

\* C6 witness: not-found on the first 2 polls, then a ready resource: success
C6_Witness ==
  /\ evals = <<"StatusNotFound", "StatusNotFound", "ready">>
  /\ presult = "success"

\* C7: a fetch error other than not-found is the last fetch of the call, and
\* the call has ended with that error.
C7_FetchErrorEndsWait ==
  \A i \in 1..Len(evals) :
    evals[i] \in FatalAnswers =>
      /\ i = Len(evals)
      /\ ppc = "done"
      /\ presult = "error"
      /\ perr = GetResource(evals[i]).err

\* C7 witness: the error comes on poll 1, before the deadline: one fetch
C7_Witness ==
  /\ Len(evals) = 1
  /\ evals[1] \in FatalAnswers
  /\ presult = "error"
  /\ pnow < ptimeout

\* the answer is a resource that satisfies the caller's predicate
Satisfies(answer) == answer \in Resources /\ condition(answer)

\* C11: success is reported at the first poll whose evaluation is true: a
\* satisfying answer is always the last fetch of the call and the call has
\* succeeded with it, and a call that succeeded saw no satisfying answer
\* before its last fetch.
C11_SuccessAtFirstTrue ==
  /\ \A i \in 1..Len(evals) :
       Satisfies(evals[i]) => /\ i = Len(evals)
                              /\ ppc = "done"
                              /\ presult = "success"
  /\ presult = "success" =>
       /\ evals # <<>>
       /\ Satisfies(evals[Len(evals)])
       /\ \A i \in 1..(Len(evals) - 1) : ~Satisfies(evals[i])

\* C11 witness: the predicate is false on two polls and true on the third
C11_Witness ==
  /\ evals = <<"unready", "unready", "ready">>
  /\ presult = "success"
  /\ pnow = 2 * PollInterval

\* C12: a call whose predicate is never true ends with a timeout failure at
\* the configured timeout, not before; no poll starts after the timeout; the
\* timeout error is not a fetch error.
C12_TimeoutExactlyAtDeadline ==
  /\ presult = "timeout" =>
       /\ pnow = ptimeout
       /\ perr \in {<<"DeadlineExceeded">>, <<"ErrWaitTimeout">>}
       /\ \A a \in FetchAnswers : perr # GetResource(a).err
  /\ (ppc = "done" /\ \A i \in 1..Len(evals) : evals[i] \in NonTerminalAnswers)
       => presult = "timeout"
  /\ ppc \in {"start", "wait"} => pnow <= ptimeout

\* C15: the first fetch and evaluation happen at the start, before any wait:
\* a call whose first fetch satisfies the predicate has succeeded at time 0
\* with one fetch.
C15_FirstFetchImmediate ==
  /\ ppc = "start" => (pnow = 0 /\ evals = <<>>)
  /\ ppc = "wait" => evals # <<>>
  /\ (evals # <<>> /\ Satisfies(evals[1])) =>
       /\ Len(evals) = 1
       /\ presult = "success"
       /\ pnow = 0

\* C15 witness: success on the very first fetch
C15_Witness ==
  /\ evals = <<"ready">>
  /\ presult = "success"
  /\ pnow = 0
  /\ ptimeout > 0

(***************************************************************************)
(* Claims about the dispatch of events and the sessions                    *)
(***************************************************************************)

HandledTypes == {"ADDED", "MODIFIED", "DELETED"}

\* the callback that belongs to an event type
MatchingHandler(type) ==
  CASE type = "ADDED" -> "OnAdd"
    [] type = "MODIFIED" -> "OnModify"
    [] type = "DELETED" -> "OnDelete"
    [] OTHER -> "none"

\* the handler invocations made for an event
CallsFor(ev) == {i \in 1..Len(calls) : calls[i].ev = ev}

\* the range loop is ready for the next event, or has ended because the
\* channel was closed and drained
LoopGoesOn ==
  \/ wpc = "session"
  \/ wpc = "done" /\ wresult = "nil" /\ chan = <<>> /\ closed

\* C13: an event of a type other than Added, Modified, Deleted invokes no
\* handler and does not end the session: after it the range loop is ready
\* for the next event.
C13_UnknownTypeSkipped ==
  /\ \A k \in 1..Len(taken) :
       taken[k].type \notin HandledTypes => CallsFor(taken[k]) = {}
  /\ (taken # <<>> /\ taken[Len(taken)].type \notin HandledTypes) => LoopGoesOn

\* C13 witness: an Error event was skipped and the Added event after it
\* reached OnAdd
C13_Witness ==
  /\ Len(taken) = 2
  /\ taken[1].type = "ERROR"
  /\ taken[2].type = "ADDED"
  /\ Len(calls) = 1
  /\ calls[1].handler = "OnAdd" /\ calls[1].ev = taken[2]

\* C14: an event gets at most one handler invocation, of the callback that
\* matches its type and is present; when that callback is absent nothing is
\* invoked, no error results and the loop is ready for the next event.
C14_AtMostOneMatchingHandler ==
  /\ \A k \in 1..Len(taken) : Cardinality(CallsFor(taken[k])) <= 1
  /\ \A i \in 1..Len(calls) :
       /\ calls[i].handler = MatchingHandler(calls[i].ev.type)
       /\ calls[i].handler \in wcfg.Handlers
  /\ \A k \in 1..Len(taken) :
       MatchingHandler(taken[k].type) \notin wcfg.Handlers => CallsFor(taken[k]) = {}
  /\ (taken # <<>> /\ MatchingHandler(taken[Len(taken)].type) \notin wcfg.Handlers)
       => LoopGoesOn
  /\ sessions >= 1 => wresult # "error"

\* C14 witness: OnModify is absent, a Modified event was dropped and the
\* Deleted event after it reached OnDelete
C14_Witness ==
  /\ "OnModify" \notin wcfg.Handlers
  /\ Len(taken) = 2
  /\ taken[1].type = "MODIFIED"
  /\ taken[2].type = "DELETED"
  /\ Len(calls) = 1
  /\ calls[1].handler = "OnDelete" /\ calls[1].status = "returned"

\* C16: after the caller asked for cancellation no new open attempt starts,
\* and when the loop has stopped the stream is closed and the outcome is a
\* cancellation, not nil and not an error.
C16_CancellationStops ==
  /\ cancel # "overrun"
  /\ (cancel = "requested" /\ wpc = "done") =>
       (~watcherOpen /\ wresult = "cancelled")

\* C17: with RetryTimeout zero no open attempt fails because of the timeout
\* and the loop does not give up.
C17_ZeroTimeoutRetriesForever ==
  wcfg.RetryTimeout = 0 =>
    /\ lastErr # WatchOpenError(DeadlineCause)
    /\ ~GaveUp

\* C18: a stream is open only while the loop is in its session, never while
\* an attempt or a backoff is under way, and every event that was received
\* or handled is an event of the one session that is open or was open last.
C18_OneSessionAtATime ==
  /\ wpc \in {"attempt", "backoff"} => ~watcherOpen
  /\ watcherOpen => (wpc \in {"session", "handler"} /\ sessions >= 1)
  /\ \A k \in 1..Len(taken) : taken[k].session = sessions
  /\ \A i \in 1..Len(calls) : calls[i].ev.session = sessions
  /\ \A k \in 1..Len(chan) : chan[k].session = sessions

\* C18 witness: after a failed attempt a session was opened and two of its
\* events were handled
C18_Witness ==
  /\ attempts >= 2
  /\ sessions = 1
  /\ Len(calls) = 2
  /\ calls[1].ev.session = 1 /\ calls[2].ev.session = 1

\* C19: when the channel is closed and drained the session ends with a nil
\* result, not an error, and it takes no step of the retry budget: the steps
\* used are those of the failed opens.
C19_SessionEndIsNil ==
  /\ (sessions >= 1 /\ wpc = "done" /\ PanickedCalls = {}) =>
       (wresult = "nil" /\ werr = NoErr /\ closed /\ chan = <<>>)
  /\ sessions >= 1 => steps = DefaultRetrySteps - (attempts - sessions)

\* C19 witness: the stream closed after an event and WatchEvents returned nil
C19_Witness ==
  /\ sessions = 1
  /\ Len(taken) >= 1
  /\ closed
  /\ wpc = "done"
  /\ wresult = "nil"

\* the loop is right after a failed attempt
AfterFailedAttempt == wpc = "backoff" \/ GaveUp

\* C20: an attempt ends within its own deadline, RetryTimeout after its
\* start; an attempt stopped by the deadline is a failed attempt that uses a
\* step of the retry budget like any other failure.
C20_AttemptTimeBoxed ==
  /\ AfterFailedAttempt => wnow - lastStart <= wcfg.RetryTimeout
  /\ (AfterFailedAttempt /\ lastErr = WatchOpenError(DeadlineCause))
       => wnow - lastStart = wcfg.RetryTimeout
  /\ wpc = "backoff" => steps = DefaultRetrySteps - attempts
  /\ GaveUp => attempts = DefaultRetrySteps

\* C20 witness: the server did not answer within 20ms, the attempt was
\* stopped at its deadline and a retry is under way
C20_Witness ==
  /\ wcfg.RetryTimeout = 20
  /\ wpc = "backoff"
  /\ lastErr = WatchOpenError(DeadlineCause)
  /\ wnow - lastStart = 20
  /\ steps = DefaultRetrySteps - 1

(***************************************************************************)
(* Claims about the retry budget, the session deadline and the streams     *)
(***************************************************************************)

\* events reach the range loop in the order the server sent them
DeliveredInOrder ==
  /\ Len(taken) <= Len(produced)
  /\ \A i \in 1..Len(taken) : taken[i] = produced[i]

\* C21: with a retry interval of 1s and a retry timeout of 5s, three failed
\* opens do not make WatchEvents give up; when the fourth open succeeds the
\* session is established within the first five seconds and the events of
\* the stream are then delivered in order.
C21_FourthAttemptEstablishes ==
  wcfg = ScenarioWatchConfig =>
    /\ (attempts <= 3 /\ sessions = 0) => wpc \in {"attempt", "backoff"}
    /\ (attempts = 4 /\ sessions = 1 /\ produced = <<>> /\ ~closed)
         => (wpc = "session" /\ wnow <= 5000)
    /\ (attempts = 4 /\ sessions = 1) => DeliveredInOrder

\* C21 witness: three opens failed, the fourth gave a stream whose two events
\* both reached their handlers
C21_Witness ==
  /\ wcfg = ScenarioWatchConfig
  /\ attempts = 4
  /\ sessions = 1
  /\ lastStart <= 5000
  /\ Len(calls) = 2
  /\ \A i \in 1..2 : calls[i].status = "returned" /\ calls[i].ev = produced[i]

\* C24: one WatchEvents call makes at most 5 open attempts and sleeps the
\* 10ms of retry.DefaultRetry between them, whatever RetryInterval and
\* RetryTimeout are: RetryInterval is never read.
C24_FiveAttemptsIntervalUnread ==
  /\ attempts <= 5
  /\ steps >= 1
  /\ lastSleep \in {-1, 10}
  /\ attempts >= 2 => lastSleep = 10

\* C24 witness: five attempts under a RetryInterval of one second, each
\* retry 10ms after the failure before it
C24_Witness ==
  /\ wcfg.RetryInterval = 1000
  /\ attempts = 5
  /\ lastSleep = 10
  /\ wpc = "done"

\* C25: WatchEvents returns an error only when every open attempt failed;
\* once an open succeeded it returns nil, also when the stream delivered an
\* Error event or was closed abnormally.  An Error event reaches no handler
\* and starts no retry.
C25_ErrorOnlyWhenNeverOpened ==
  /\ wresult = "error" => (sessions = 0 /\ attempts = 5 /\ werr # NoErr)
  /\ (sessions >= 1 /\ wpc = "done" /\ wresult # "panic")
       => (wresult = "nil" /\ werr = NoErr)
  /\ sessions >= 1 => (wpc \in {"session", "handler", "done"} /\ sessions = 1)
  /\ \A i \in 1..Len(taken) :
       taken[i].type = "ERROR" => CallsFor(taken[i]) = {}

\* C25 witness: the stream delivered an Error event and was then cut by the
\* deadline; WatchEvents returned nil
C25_Witness ==
  /\ sessions = 1
  /\ \E i \in 1..Len(taken) : taken[i].type = "ERROR"
  /\ closed
  /\ wnow >= lastStart + wcfg.RetryTimeout
  /\ wpc = "done"
  /\ wresult = "nil"

\* the deadline of the attempt's context has closed the stream
DeadlineClosed ==
  /\ sessions >= 1
  /\ closed
  /\ wnow >= lastStart + wcfg.RetryTimeout

\* an open stream is younger than RetryTimeout, and after the deadline
\* WatchEvents opens no other stream and returns nil
SessionBoundedByDeadline ==
  /\ (watcherOpen /\ ~closed) => wnow < lastStart + wcfg.RetryTimeout
  /\ DeadlineClosed => (wpc \in {"session", "handler", "done"} /\ sessions = 1)
  /\ (DeadlineClosed /\ wpc = "done" /\ wresult # "panic") => wresult = "nil"

C27_StreamsStopped ==
  /\ wpc \in {"attempt", "backoff", "done"}
       => (~watcherOpen /\ ctxDeadline = -1)
  /\ spc \in {"start", "done"} => ~sOpen

\* C27 witness: both functions had a stream and have returned
C27_Witness ==
  /\ wpc = "done" /\ sessions = 1 /\ taken # <<>>
  /\ spc = "done" /\ sresult = "nil" /\ sseen >= 1

(***************************************************************************)
(* Claims about the poll cadence                                           *)
(***************************************************************************)

\* C22: with a timeout of 10s the polls come at 0s, 2s, 4s, 6s, 8s; a
\* resource unready on the first four polls and ready on the fifth gives
\* success at 8s, and four unready polls do not end the wait.
C22_ReadyOnFifthPoll ==
  ptimeout = 10000 =>
    /\ ppc = "wait" => pnow = 2000 * (Len(evals) - 1)
    /\ (Len(evals) <= 4 /\ \A i \in 1..Len(evals) : evals[i] = "unready")
         => ppc \in {"start", "wait"}
    /\ (Len(evals) = 5 /\ evals[5] = "ready"
          /\ \A i \in 1..4 : evals[i] = "unready")
         => (ppc = "done" /\ presult = "success" /\ pnow = 8000)

\* C22 witness: unready at 0s, 2s, 4s, 6s, ready at 8s
C22_Witness ==
  /\ ptimeout = 10000
  /\ evals = <<"unready", "unready", "unready", "unready", "ready">>
  /\ presult = "success"
  /\ pnow = 8000

C28_ZeroTimeoutOneFetch ==
  ptimeout = 0 =>
    /\ Len(evals) <= 1
    /\ (Len(evals) = 1 /\ Satisfies(evals[1])) => presult = "success"
    /\ (Len(evals) = 1 /\ evals[1] \in NonTerminalAnswers /\ ppc = "done")
         => presult = "timeout"

(***************************************************************************)
(* Claims about pipeline execute                                           *)
(***************************************************************************)

RECURSIVE CommandsBefore(_, _)
\* the number of commands the stages before stage i list
CommandsBefore(p, i) ==
  IF i <= 1 THEN 0 ELSE CommandsBefore(p, i - 1) + p[i - 1]

\* the place of command j of stage i in file order
FileOrder(p, i, j) == CommandsBefore(p, i) + j

\* the stages with a command that failed
FailedStages == {finished[k][1] : k \in {n \in 1..Len(finished) : ~finished[n][3]}}

\* the stages whose "completed successfully" line was printed
CompletedStages ==
  {output[k][2] : k \in {n \in 1..Len(output) :
                           output[n][1] = "Stage completed successfully"}}

PipelineCompletedPrinted ==
  \E k \in 1..Len(output) :
    output[k][1] = "Pipeline execution completed successfully"

\* C29: commands start in file order, stage by stage, each after the one
\* before it has ended; after a failed command nothing else starts and
\* neither the stage's nor the pipeline's completion line is printed.
C29_InOrderStopAtFailure ==
  /\ \A k \in 1..Len(started) :
       FileOrder(pipeline, started[k][1], started[k][2]) = k
  /\ Len(started) - Len(finished) \in {0, 1}
  /\ \A k \in 1..Len(finished) :
       <<finished[k][1], finished[k][2]>> = started[k]
  /\ \A k \in 1..Len(finished) :
       ~finished[k][3] =>
         /\ k = Len(finished) /\ k = Len(started)
         /\ xpc = "exited"
         /\ finished[k][1] \notin CompletedStages
         /\ ~PipelineCompletedPrinted
  /\ PipelineCompletedPrinted =>
       /\ Len(finished) = CommandsBefore(pipeline, Len(pipeline) + 1)
       /\ CompletedStages = 1..Len(pipeline)

\* C29 witness: the first stage completed, the first command of the second
\* stage failed and its second command was never started
C29_Witness ==
  /\ pipeline = <<1, 2>>
  /\ finished = <<<<1, 1, TRUE>>, <<2, 1, FALSE>>>>
  /\ started = <<<<1, 1>>, <<2, 1>>>>
  /\ CompletedStages = {1}
  /\ xpc = "exited"

(***************************************************************************)
(* Claims about MonitorPodHealth                                           *)
(***************************************************************************)

\* the lines "Error listing pods" printed so far
ErrorLines == {k \in 1..Len(mprinted) : mprinted[k] = "Error listing pods"}

FailedListings == {k \in 1..Len(listings) : listings[k].outcome = "error"}

\* C30: the k-th listing comes k intervals after the call, the first one
\* after a full interval; a failed listing is printed and the loop goes on;
\* the function never returns.
C30_ListsOncePerTick ==
  /\ \A k \in 1..Len(listings) : listings[k].at = k * minterval
  /\ listings # <<>> => (minterval > 0 /\ mnow >= minterval)
  /\ Cardinality(ErrorLines) = Cardinality(FailedListings)
  /\ mresult \notin {"nil", "error"}
  /\ listings # <<>> => mpc = "loop"

\* C30 witness: the first listing failed one interval after the call, the
\* next two were made at the next two ticks
C30_Witness ==
  /\ minterval = 1000
  /\ Len(listings) = 3
  /\ listings[1] = [at |-> 1000, outcome |-> "error"]
  /\ listings[2].outcome = "one pod"
  /\ listings[3].at = 3000
  /\ mpc = "loop"

====
